---- MODULE Spec2Model ----
(***************************************************************************)
(* A model of the SMS ingest service (src/api/index.js): the catalog       *)
(* cache, the /ingest pipeline, and the pure helpers it is built from.     *)
(*                                                                         *)
(* JavaScript strings are sequences of one-character strings.  JSON values *)
(* are tagged records: [t |-> "null"], [t |-> "num", v |-> n],             *)
(* [t |-> "str", v |-> chars], [t |-> "bool", v |-> b],                    *)
(* [t |-> "obj", v |-> <<key, value>> pairs in source order]; a missing    *)
(* property reads as [t |-> "undefined"]; a thrown Error is                *)
(* [t |-> "error", ...].                                                   *)
(***************************************************************************)
EXTENDS Integers, Sequences, FiniteSets, TLC

VARIABLES
    actualReady,        \* index.js:294
    actualAccounts,     \* index.js:295
    actualCategories,   \* index.js:296
    ledger,             \* the ledger store's connection: "down", "inited", "loaded"
    ledgerTx,           \* the ledger store's entries, keyed by imported_id
    today,              \* the calendar day of the clock in TIMEZONE
    req,                \* per /ingest request: where it waits and its locals
    call,               \* a helper called on its own: its arguments
    ret                 \* a helper called on its own: what it returned or threw

vars == <<actualReady, actualAccounts, actualCategories, ledger, ledgerTx, today,
          req, call, ret>>

----------------------------------------------------------------------------
(* JavaScript values *)

JNull == [t |-> "null"]
JUndefined == [t |-> "undefined"]
JNum(n) == [t |-> "num", v |-> n]
JStr(s) == [t |-> "str", v |-> s]
JBool(b) == [t |-> "bool", v |-> b]
JObj(pairs) == [t |-> "obj", v |-> pairs]

\* what has not been computed yet
Pending == [t |-> "pending"]

----------------------------------------------------------------------------
(* String primitives *)

UpperChars == <<"A","B","C","D","E","F","G","H","I","J","K","L","M",
                "N","O","P","Q","R","S","T","U","V","W","X","Y","Z">>
LowerChars == <<"a","b","c","d","e","f","g","h","i","j","k","l","m",
                "n","o","p","q","r","s","t","u","v","w","x","y","z">>
DigitChars == <<"0","1","2","3","4","5","6","7","8","9">>

Range(f) == {f[i] : i \in DOMAIN f}

IsDigit(c) == c \in Range(DigitChars)
\* \s of a JavaScript regular expression
IsSpace(c) == c \in {" ", "\n", "\t", "\r"}
\* \w of a JavaScript regular expression
IsWord(c) == c \in Range(UpperChars) \cup Range(LowerChars) \cup Range(DigitChars) \cup {"_"}

LowerChar(c) ==
    IF c \in Range(UpperChars)
    THEN LowerChars[CHOOSE i \in DOMAIN UpperChars : UpperChars[i] = c]
    ELSE c

\* s.toLowerCase()
ToLowerCase(s) == [i \in 1..Len(s) |-> LowerChar(s[i])]

\* s.includes(t)
Includes(s, t) ==
    \E i \in 0..(Len(s) - Len(t)) : SubSeq(s, i + 1, i + Len(t)) = t

\* s.replace(/[*\s]/g, '')
StripStarSpace(s) == SelectSeq(s, LAMBDA c : ~(c = "*" \/ IsSpace(c)))

\* s.replace(/[^\w\s]/g, '')
StripNonWordSpace(s) == SelectSeq(s, LAMBDA c : IsWord(c) \/ IsSpace(c))

\* the least element of a non-empty set of indices
MinOf(S) == CHOOSE i \in S : \A j \in S : i <= j

\* Array.prototype.find, given the indices whose element satisfies the
\* callback: the first such element, or undefined
FindAt(arr, hits) == IF hits = {} THEN JUndefined ELSE arr[MinOf(hits)]

\* a value is truthy (used on strings, objects, null and undefined)
Truthy(x) ==
    CASE x.t = "null" -> FALSE
      [] x.t = "undefined" -> FALSE
      [] x.t = "str" -> x.v # <<>>
      [] x.t = "num" -> x.v # 0
      [] x.t = "bool" -> x.v
      [] OTHER -> TRUE

----------------------------------------------------------------------------
(* JSON.parse and JSON.stringify.  The grammar covered: objects, arrays,   *)
(* strings with the escapes \" \\ \/ \n \t \r, integers, true, false,      *)
(* null.  Fractions, exponents and \b \f \u escapes are outside it; no     *)
(* text the specifications feed the parser uses them.                      *)

SyntaxError == [t |-> "error", message |-> "SyntaxError"]
IsError(x) == x.t = "error"

\* the character at index i, "" past the end
At(s, i) == IF i >= 1 /\ i <= Len(s) THEN s[i] ELSE ""

IsJsonWs(c) == c \in {" ", "\n", "\t", "\r"}

\* the first index from i on that holds no JSON whitespace
SkipWs(s, i) == MinOf({j \in i..(Len(s) + 1) : ~IsJsonWs(At(s, j))})

NoParse == [ok |-> FALSE]
Parsed(v, next) == [ok |-> TRUE, val |-> v, pos |-> next]

DigitValue(c) == (CHOOSE i \in DOMAIN DigitChars : DigitChars[i] = c) - 1

\* the last index before j, from lo on, that holds no backslash (lo - 1: none)
LastOther(s, lo, j) ==
    IF \A k \in lo..(j - 1) : s[k] = "\\" THEN lo - 1
    ELSE CHOOSE k \in lo..(j - 1) : s[k] # "\\" /\ \A m \in (k + 1)..(j - 1) : s[m] = "\\"

\* the character at index j of a string literal whose text starts at lo is
\* escaped: an odd number of backslashes runs up to it
Escaped(s, lo, j) == ((j - 1) - LastOther(s, lo, j)) % 2 = 1

EscapeChars == {"\"", "\\", "/", "n", "t", "r"}

\* what the character at index k contributes to the value of the literal
StringPiece(s, lo, k) ==
    IF Escaped(s, lo, k)
    THEN CASE s[k] = "n" -> <<"\n">>
           [] s[k] = "t" -> <<"\t">>
           [] s[k] = "r" -> <<"\r">>
           [] OTHER -> <<s[k]>>
    ELSE IF s[k] = "\\" THEN <<>> ELSE <<s[k]>>

RECURSIVE StringPieces(_, _, _, _)
StringPieces(s, lo, from, to) ==
    IF from > to THEN <<>>
    ELSE IF from = to THEN StringPiece(s, lo, from)
    ELSE StringPieces(s, lo, from, (from + to) \div 2)
         \o StringPieces(s, lo, ((from + to) \div 2) + 1, to)

\* the literal whose text runs from lo to the closing quote at hi
StringBetween(s, lo, hi) ==
    IF \E k \in lo..(hi - 1) :
          \/ s[k] \in {"\n", "\t", "\r"}
          \/ Escaped(s, lo, k) /\ s[k] \notin EscapeChars
    THEN NoParse
    ELSE Parsed(JStr(StringPieces(s, lo, lo, hi - 1)), hi + 1)

StringUpTo(s, lo, closers) ==
    IF closers = {} THEN NoParse ELSE StringBetween(s, lo, MinOf(closers))

\* the string literal whose text starts at index lo, after its opening quote
ParseStringBody(s, lo) ==
    StringUpTo(s, lo, {j \in lo..Len(s) : s[j] = "\"" /\ ~Escaped(s, lo, j)})

RECURSIVE ParseDigits(_, _, _)
ParseDigits(s, j, acc) ==
    IF IsDigit(At(s, j)) THEN ParseDigits(s, j + 1, 10 * acc + DigitValue(s[j]))
    ELSE [val |-> acc, pos |-> j]

NumberEnd(s, d) ==
    IF At(s, d.pos) \in {".", "e", "E"} THEN NoParse ELSE Parsed(JNum(d.val), d.pos)

\* (0|[1-9][0-9]*) with no fraction or exponent after it
NumberAt(s, j) ==
    IF ~IsDigit(At(s, j)) \/ (At(s, j) = "0" /\ IsDigit(At(s, j + 1))) THEN NoParse
    ELSE NumberEnd(s, ParseDigits(s, j, 0))

Negated(r) == IF r.ok THEN Parsed(JNum(0 - r.val.v), r.pos) ELSE NoParse

ParseNumber(s, i) ==
    IF At(s, i) = "-" THEN Negated(NumberAt(s, i + 1)) ELSE NumberAt(s, i)

Word_true == <<"t","r","u","e">>
Word_false == <<"f","a","l","s","e">>
Word_null == <<"n","u","l","l">>

StartsWithAt(s, i, w) == i + Len(w) - 1 <= Len(s) /\ SubSeq(s, i, i + Len(w) - 1) = w

RECURSIVE ParseValue(_, _)
RECURSIVE ParseMembers(_, _, _)
RECURSIVE ParseElements(_, _, _)

\* after a member: a comma and the next member, or the closing brace
MemberNext(s, pairs, n) ==
    IF At(s, n) = "," THEN ParseMembers(s, SkipWs(s, n + 1), pairs)
    ELSE IF At(s, n) = "}" THEN Parsed(JObj(pairs), n + 1)
    ELSE NoParse

MemberValue(s, acc, key, val) ==
    IF ~val.ok THEN NoParse
    ELSE MemberNext(s, Append(acc, <<key, val.val>>), SkipWs(s, val.pos))

MemberColon(s, acc, key, c) ==
    IF At(s, c) # ":" THEN NoParse
    ELSE MemberValue(s, acc, key, ParseValue(s, SkipWs(s, c + 1)))

MemberKey(s, acc, key) ==
    IF ~key.ok THEN NoParse ELSE MemberColon(s, acc, key.val.v, SkipWs(s, key.pos))

\* the members of an object from index i on (whitespace skipped), acc parsed so far
ParseMembers(s, i, acc) ==
    IF At(s, i) # "\"" THEN NoParse ELSE MemberKey(s, acc, ParseStringBody(s, i + 1))

ElementNext(s, elems, n) ==
    IF At(s, n) = "," THEN ParseElements(s, SkipWs(s, n + 1), elems)
    ELSE IF At(s, n) = "]" THEN Parsed([t |-> "arr", v |-> elems], n + 1)
    ELSE NoParse

ElementValue(s, acc, val) ==
    IF ~val.ok THEN NoParse ELSE ElementNext(s, Append(acc, val.val), SkipWs(s, val.pos))

\* the elements of an array from index i on (whitespace skipped)
ParseElements(s, i, acc) == ElementValue(s, acc, ParseValue(s, i))

ObjectFrom(s, j) ==
    IF At(s, j) = "}" THEN Parsed(JObj(<<>>), j + 1) ELSE ParseMembers(s, j, <<>>)

ArrayFrom(s, j) ==
    IF At(s, j) = "]" THEN Parsed([t |-> "arr", v |-> <<>>], j + 1)
    ELSE ParseElements(s, j, <<>>)

\* one JSON value starting at index i (whitespace skipped)
ParseValue(s, i) ==
    CASE At(s, i) = "{" -> ObjectFrom(s, SkipWs(s, i + 1))
      [] At(s, i) = "[" -> ArrayFrom(s, SkipWs(s, i + 1))
      [] At(s, i) = "\"" -> ParseStringBody(s, i + 1)
      [] At(s, i) = "-" \/ IsDigit(At(s, i)) -> ParseNumber(s, i)
      [] StartsWithAt(s, i, Word_true) -> Parsed(JBool(TRUE), i + 4)
      [] StartsWithAt(s, i, Word_false) -> Parsed(JBool(FALSE), i + 5)
      [] StartsWithAt(s, i, Word_null) -> Parsed(JNull, i + 4)
      [] OTHER -> NoParse

\* the value parsed, if nothing but whitespace follows it
WholeValue(s, r) ==
    IF r.ok /\ SkipWs(s, r.pos) > Len(s) THEN r.val ELSE SyntaxError

\* JSON.parse(s): the value, or the SyntaxError it throws
JsonParse(s) == WholeValue(s, ParseValue(s, SkipWs(s, 1)))

\* String(n) of an integer
RECURSIVE IntToStr(_)
IntToStr(n) ==
    IF n < 0 THEN <<"-">> \o IntToStr(0 - n)
    ELSE IF n < 10 THEN <<DigitChars[n + 1]>>
    ELSE IntToStr(n \div 10) \o <<DigitChars[(n % 10) + 1]>>

EscapeChar(c) ==
    CASE c = "\"" -> <<"\\", "\"">>
      [] c = "\\" -> <<"\\", "\\">>
      [] c = "\n" -> <<"\\", "n">>
      [] c = "\t" -> <<"\\", "t">>
      [] c = "\r" -> <<"\\", "r">>
      [] OTHER -> <<c>>

RECURSIVE EscapeString(_)
EscapeString(s) ==
    IF s = <<>> THEN <<>>
    ELSE IF Len(s) = 1 THEN EscapeChar(s[1])
    ELSE EscapeString(SubSeq(s, 1, Len(s) \div 2))
         \o EscapeString(SubSeq(s, (Len(s) \div 2) + 1, Len(s)))

Quote(s) == <<"\"">> \o EscapeString(s) \o <<"\"">>

RECURSIVE JsonStringify(_)
RECURSIVE StringifyMembers(_)
RECURSIVE StringifyElements(_)

StringifyMembers(pairs) ==
    IF pairs = <<>> THEN <<>>
    ELSE Quote(Head(pairs)[1]) \o <<":">> \o JsonStringify(Head(pairs)[2])
         \o (IF Len(pairs) > 1 THEN <<",">> ELSE <<>>) \o StringifyMembers(Tail(pairs))

StringifyElements(elems) ==
    IF elems = <<>> THEN <<>>
    ELSE JsonStringify(Head(elems))
         \o (IF Len(elems) > 1 THEN <<",">> ELSE <<>>) \o StringifyElements(Tail(elems))

\* JSON.stringify(v) of a value JSON.parse can return
JsonStringify(v) ==
    CASE v.t = "null" -> Word_null
      [] v.t = "bool" -> IF v.v THEN Word_true ELSE Word_false
      [] v.t = "num" -> IntToStr(v.v)
      [] v.t = "str" -> Quote(v.v)
      [] v.t = "arr" -> <<"[">> \o StringifyElements(v.v) \o <<"]">>
      [] v.t = "obj" -> <<"{">> \o StringifyMembers(v.v) \o <<"}">>

\* the greatest element of a non-empty set of indices
MaxOf(S) == CHOOSE i \in S : \A j \in S : j <= i

LastMember(o, hits) == IF hits = {} THEN JUndefined ELSE o.v[MaxOf(hits)][2]

\* o?.[key]: the last member named key of an object, undefined otherwise
GetProp(o, key) ==
    IF o.t # "obj" THEN JUndefined
    ELSE LastMember(o, {i \in DOMAIN o.v : o.v[i][1] = key})

----------------------------------------------------------------------------
(* JSON extraction helpers *)

Err(msg) == [t |-> "error", message |-> msg]

\* the backquote character (a TLA+ string literal cannot hold one)
Backquote == "bq"
Fence == <<Backquote, Backquote, Backquote>>
Tag_json == <<"j","s","o","n">>

\* the indices at which w occurs in s
Occurrences(s, w) == {i \in 1..Len(s) : StartsWithAt(s, i, w)}

TrimTo(s, solid) == IF solid = {} THEN <<>> ELSE SubSeq(s, MinOf(solid), MaxOf(solid))

\* s.trim()
Trim(s) == TrimTo(s, {i \in 1..Len(s) : ~IsSpace(s[i])})

TrimEndTo(s, solid) == IF solid = {} THEN <<>> ELSE SubSeq(s, 1, MaxOf(solid))

\* s without its trailing whitespace
TrimEnd(s) == TrimEndTo(s, {i \in 1..Len(s) : ~IsSpace(s[i])})

\* the first index from i on that holds no whitespace
SkipSpace(s, i) == MinOf({j \in i..(Len(s) + 1) : ~IsSpace(At(s, j))})

\* the index after the opening fence at p and its optional json tag
AfterTag(s, p) == IF StartsWithAt(ToLowerCase(s), p + 3, Tag_json) THEN p + 7 ELSE p + 3

\* group 1: from `from` up to the whitespace before the next fence
Capture(s, fences, from) ==
    TrimEnd(SubSeq(s, from, MinOf({c \in fences : c >= from}) - 1))

StripFrom(s, fences, opens) ==
    IF opens = {} THEN s
    ELSE Capture(s, fences, SkipSpace(s, AfterTag(s, MinOf(opens))))

StripWith(s, fences) ==
    StripFrom(s, fences, {p \in fences : \E q \in fences : q >= p + 3})

\* s.match(/FENCE(?:json)?\s*([\s\S]*?)\s*FENCE/i), FENCE three backquotes:
\* group 1 of the leftmost match, or s when there is none
stripCodeFences(s) == StripWith(s, Occurrences(s, Fence))

\* depth after the loop body has run on index i, the loop having started at start
DepthAt(s, start, i) ==
    Cardinality({j \in start..i : s[j] = "{"}) - Cardinality({j \in start..i : s[j] = "}"})

\* a scan that returns the text up to its end
ScanResult_ToEnd(s, start, zero) ==
    IF zero = {} THEN Err("Unterminated JSON object in model output")
    ELSE JStr(SubSeq(s, start, Len(s)))

ScanResult(s, start, zero) ==
    IF zero = {} THEN Err("Unterminated JSON object in model output")
    ELSE JStr(SubSeq(s, start, MinOf(zero)))

\* a scan that stops at the first closing brace
ScanBraces_FirstClose(s, start) ==
    ScanResult(s, start, {i \in start..Len(s) : s[i] = "}"})

\* the for loop of extractFirstJsonObjectString: it returns at the first index
\* where depth is 0
ScanBraces(s, start) ==
    ScanResult(s, start, {i \in start..Len(s) : DepthAt(s, start, i) = 0})

FirstObject(s, braces) ==
    IF braces = {} THEN Err("No '{' found in model output")
    ELSE ScanBraces(s, MinOf(braces))

extractFirstJsonObjectString(s) == FirstObject(s, Occurrences(s, <<"{">>))

\* the catch branch of parseModelJsonFromText
ParseObjStr(objStr) == IF IsError(objStr) THEN objStr ELSE JsonParse(objStr.v)

DirectOrFirst(stripped, direct) ==
    IF ~IsError(direct) THEN direct
    ELSE ParseObjStr(extractFirstJsonObjectString(stripped))

ParseStripped(stripped) == DirectOrFirst(stripped, JsonParse(stripped))

parseModelJsonFromText(text) == ParseStripped(Trim(stripCodeFences(text)))

----------------------------------------------------------------------------
(* Ollama NDJSON-safe chat *)

Key_message == <<"m","e","s","s","a","g","e">>
Key_content == <<"c","o","n","t","e","n","t">>
Key_done == <<"d","o","n","e">>

\* the k-th of the cut points of a split, in increasing order
CutAt(cuts, k) == CHOOSE c \in cuts : Cardinality({d \in cuts : d < c}) = k - 1

SplitAt(s, cuts) ==
    [k \in 1..(Cardinality(cuts) - 1) |->
        SubSeq(s, CutAt(cuts, k) + 1, CutAt(cuts, k + 1) - 1)]

\* body.split("\n")
SplitLines(s) == SplitAt(s, {0, Len(s) + 1} \cup {i \in 1..Len(s) : s[i] = "\n"})

\* if (typeof part === "string") assembled += part
AddPart(part, assembled) == IF part.t = "str" THEN assembled \o part.v ELSE assembled

RECURSIVE AssembleLines(_, _)

\* a loop body that does not break on done
AfterChunk_NoBreak(lines, chunk, assembled) == AssembleLines(Tail(lines), assembled)

\* the loop body on a line that parsed to chunk
AfterChunk(lines, chunk, assembled) ==
    IF GetProp(chunk, Key_done) = JBool(TRUE) THEN assembled
    ELSE AssembleLines(Tail(lines), assembled)

AssembleChunk(lines, chunk, assembled) ==
    IF IsError(chunk) THEN AssembleLines(Tail(lines), assembled)
    ELSE AfterChunk(lines, chunk,
                    AddPart(GetProp(GetProp(chunk, Key_message), Key_content), assembled))

\* the for loop over the NDJSON lines
AssembleLines(lines, assembled) ==
    IF lines = <<>> THEN assembled
    ELSE AssembleChunk(lines, JsonParse(Head(lines)), assembled)

\* the try branch of ollamaChatText, on obj?.message?.content
ContentText(content) ==
    CASE content.t = "str" -> content
      [] content.t \in {"obj", "arr"} -> JStr(JsonStringify(content))
      [] content.t \in {"null", "undefined"} -> JStr(<<>>)
      [] OTHER -> JStr(JsonStringify(content))

\* the end of the catch branch of ollamaChatText
AssembledText(assembled) ==
    IF assembled = <<>> THEN Err("Failed to assemble model output from NDJSON stream")
    ELSE JStr(assembled)

BodyText(body, obj) ==
    IF ~IsError(obj) THEN ContentText(GetProp(GetProp(obj, Key_message), Key_content))
    ELSE AssembledText(AssembleLines(SelectSeq(SplitLines(body), LAMBDA l : l # <<>>), <<>>))

\* the response of fetch on the inference service: [ok, status, body]; the
\* text the function returns is JStr(text), what it throws is an error
ollamaChatText(res) ==
    IF ~res.ok THEN [t |-> "error", message |-> "Ollama error", status |-> res.status,
                     body |-> res.body]
    ELSE BodyText(res.body, JsonParse(res.body))

ParseContentText(contentText) ==
    IF IsError(contentText) THEN contentText ELSE parseModelJsonFromText(contentText.v)

\* ollamaParse after its fetch: the model text parsed, or the error thrown
ollamaParse(res) == ParseContentText(ollamaChatText(res))

----------------------------------------------------------------------------
(* Validation *)

Key_amount == <<"a","m","o","u","n","t">>
Key_description == <<"d","e","s","c","r","i","p","t","i","o","n">>
Key_date == <<"d","a","t","e">>
Key_account == <<"a","c","c","o","u","n","t">>
Key_category == <<"c","a","t","e","g","o","r","y">>

\* typeof x
TypeOf(x) ==
    CASE x.t \in {"null", "obj", "arr"} -> "object"
      [] x.t = "num" -> "number"
      [] x.t = "str" -> "string"
      [] x.t = "bool" -> "boolean"
      [] OTHER -> "undefined"

\* checks that leave the date out
ValidateFields_NoDate(amount, description, date, account, category) ==
    IF ~(amount = JNull \/ TypeOf(amount) = "number")
        THEN Err("amount must be number or null")
    ELSE IF ~(description = JNull \/ TypeOf(description) = "string")
        THEN Err("description must be string or null")
    ELSE IF ~(account = JNull \/ TypeOf(account) = "string")
        THEN Err("account must be string or null")
    ELSE IF ~(category = JNull \/ TypeOf(category) = "string")
        THEN Err("category must be string or null")
    ELSE [t |-> "parsed", amount |-> amount, description |-> description,
          date |-> date, account |-> account, category |-> category]

\* the five checks of validateParsed on the destructured fields
ValidateFields(amount, description, date, account, category) ==
    IF ~(amount = JNull \/ TypeOf(amount) = "number")
        THEN Err("amount must be number or null")
    ELSE IF ~(description = JNull \/ TypeOf(description) = "string")
        THEN Err("description must be string or null")
    ELSE IF ~(date = JNull \/ TypeOf(date) = "string")
        THEN Err("date must be string or null")
    ELSE IF ~(account = JNull \/ TypeOf(account) = "string")
        THEN Err("account must be string or null")
    ELSE IF ~(category = JNull \/ TypeOf(category) = "string")
        THEN Err("category must be string or null")
    ELSE [t |-> "parsed", amount |-> amount, description |-> description,
          date |-> date, account |-> account, category |-> category]

\* the validated extraction [t |-> "parsed", amount, description, date,
\* account, category], or the error thrown
validateParsed(p) ==
    IF ~Truthy(p) \/ TypeOf(p) # "object" THEN Err("LLM output is not an object")
    ELSE ValidateFields(GetProp(p, Key_amount), GetProp(p, Key_description),
                        GetProp(p, Key_date), GetProp(p, Key_account),
                        GetProp(p, Key_category))

----------------------------------------------------------------------------
(* The store's catalogs, the messages and the inference replies the         *)
(* specifications draw from                                                  *)

Name_HSBC == <<"H","S","B","C"," ","*","0","0","0","1">>
Name_ICICI == <<"I","C","I","C","I"," ","*","2","9","7","9">>
Name_OldHSBC == <<"O","l","d"," ","H","S","B","C">>
Name_Cash == <<"C","a","s","h">>

Acc_HSBC == [id |-> "a1", name |-> Name_HSBC, closed |-> FALSE]
Acc_ICICI == [id |-> "a2", name |-> Name_ICICI, closed |-> FALSE]
Acc_OldHSBC == [id |-> "a3", name |-> Name_OldHSBC, closed |-> TRUE]
Acc_Cash == [id |-> "a4", name |-> Name_Cash, closed |-> FALSE]

Cat_Groceries == [id |-> "c1", name |-> <<"G","r","o","c","e","r","i","e","s">>, hidden |-> FALSE]
Cat_Misc == [id |-> "c2", name |-> <<"M","i","s","c">>, hidden |-> TRUE]
Cat_Nameless == [id |-> "c3", name |-> <<>>, hidden |-> FALSE]

\* what getAccounts() can return
StoreAccounts == { <<Acc_OldHSBC, Acc_HSBC, Acc_ICICI>>, <<Acc_OldHSBC>> }
\* what getCategories() returns
StoreCategories == <<Cat_Misc, Cat_Nameless, Cat_Groceries>>

Sms_Card == <<"R","s",".","5","0","0"," ","s","p","e","n","t"," ","C","a","r","d"," ","2","9","7","9">>
Sms_Cafe == <<"P","a","i","d"," ","1","0","0"," ","a","t"," ","C","a","f","e">>

\* req.body?.sms: a string, an empty string, or no sms at all
SmsInputs == {JStr(Sms_Card), JStr(Sms_Cafe), JUndefined}

Str_Amazon == <<"A","m","a","z","o","n">>
Str_Date == <<"2","0","2","4","-","0","5","-","0","1">>
Str_Shopping == <<"S","h","o","p","p","i","n","g">>
Str_groceries == <<"g","r","o","c","e","r","i","e","s">>
Str_misc == <<"m","i","s","c">>
Str_old_hsbc == <<"o","l","d"," ","h","s","b","c">>
Str_Unknown == <<"U","n","k","n","o","w","n"," ","B","a","n","k">>
Str_OTP == <<"O","T","P">>
Str_soon == <<"s","o","o","n">>
Str_500 == <<"5","0","0">>
Str_someday == <<"t","o","m","o","r","r","o","w"," ","n","o","o","n">>

Extraction(amount, description, date, account, category) ==
    JObj(<< <<Key_amount, amount>>, <<Key_description, description>>,
            <<Key_date, date>>, <<Key_account, account>>, <<Key_category, category>> >>)

\* the model texts: what the model writes as its message content
Text_AllNull == JsonStringify(Extraction(JNull, JNull, JNull, JNull, JNull))
Text_Reminder == JsonStringify(Extraction(JNull, JStr(Str_OTP), JStr(Str_soon),
                                          JStr(Name_HSBC), JStr(Str_groceries)))
Text_Exact == JsonStringify(Extraction(JNum(-500), JStr(Str_Amazon), JStr(Str_Date),
                                       JStr(Name_HSBC), JStr(Str_Shopping)))
Text_NoDate == JsonStringify(Extraction(JNum(100), JNull, JNull,
                                        JStr(Str_Unknown), JStr(Str_groceries)))
Text_Closed == JsonStringify(Extraction(JNum(100), JNull, JStr(Str_soon),
                                        JStr(Str_old_hsbc), JStr(Str_misc)))
Text_BadAmount == JsonStringify(Extraction(JStr(Str_500), JNull, JNull, JNull, JNull))

Text_LongDate == JsonStringify(Extraction(JNum(100), JNull, JStr(Str_someday),
                                          JStr(Name_ICICI), JNull))
Text_Sorry == <<"S","o","r","r","y",","," ","I"," ","c","a","n","n","o","t"," ","r","e","a","d"," ","i","t">>

\* a response of the inference service in single-object mode
SingleObject(text) ==
    [ok |-> TRUE, status |-> 200,
     body |-> JsonStringify(JObj(<< <<Key_message, JObj(<< <<Key_content, JStr(text)>> >>)>>,
                                    <<Key_done, JBool(TRUE)>> >>))]

\* one line of a streamed response
StreamLine(text, done) ==
    JsonStringify(JObj(<< <<Key_message, JObj(<< <<Key_content, JStr(text)>> >>)>>,
                          <<Key_done, JBool(done)>> >>)) \o <<"\n">>

\* the responses fetch can resolve with
Replies == <<
    SingleObject(Text_AllNull),
    SingleObject(Text_Reminder),
    SingleObject(Text_Exact),
    SingleObject(Text_NoDate),
    SingleObject(Text_Closed),
    SingleObject(Text_BadAmount),
    SingleObject(Text_LongDate),
    SingleObject(Text_Sorry),
    [ok |-> TRUE, status |-> 200, body |-> <<"{","\"","d","o","n","e","\"",":","t","r","u","e","}">>],
    [ok |-> TRUE, status |-> 200,
     body |-> StreamLine(SubSeq(Text_NoDate, 1, 9), FALSE)
              \o StreamLine(SubSeq(Text_NoDate, 10, Len(Text_NoDate)), FALSE)
              \o StreamLine(<<>>, TRUE)],
    [ok |-> FALSE, status |-> 500, body |-> <<"o","v","e","r","l","o","a","d","e","d">>] >>

----------------------------------------------------------------------------
(* Matching helpers *)

\* str.match(/\d{4}/g) || []: the non-overlapping matches, left to right
RECURSIVE extractDigits(_)
extractDigits(str) ==
    IF Len(str) < 4 THEN <<>>
    ELSE IF \A k \in 1..4 : IsDigit(str[k])
         THEN <<SubSeq(str, 1, 4)>> \o extractDigits(SubSeq(str, 5, Len(str)))
         ELSE extractDigits(Tail(str))

\* the predicate of the first find (exact match)
AccountExact(a, accountName) ==
    /\ accountName.t = "str"
    /\ ToLowerCase(a.name) = ToLowerCase(accountName.v)

\* a partial match on the stripped name in both directions, for any label
AccountPartial_Stripped(a, accountName) ==
    /\ accountName.t = "str"
    /\ \/ Includes(StripStarSpace(ToLowerCase(a.name)), ToLowerCase(accountName.v))
       \/ Includes(ToLowerCase(accountName.v), StripStarSpace(ToLowerCase(a.name)))

\* the predicate of the second find (partial match), tried if (accountName)
AccountPartial(a, accountName) ==
    /\ Truthy(accountName)
    /\ \/ Includes(ToLowerCase(a.name), ToLowerCase(accountName.v))
       \/ Includes(ToLowerCase(accountName.v), StripStarSpace(ToLowerCase(a.name)))

\* a fallback that takes the first account holding any of the runs
DigitFallback_CatalogOrder(smsDigits, accounts) ==
    IF \A i \in DOMAIN accounts :
          \A k \in DOMAIN smsDigits : ~Includes(accounts[i].name, smsDigits[k])
    THEN JNull
    ELSE FindAt(accounts, {i \in DOMAIN accounts :
                    \E k \in DOMAIN smsDigits : Includes(accounts[i].name, smsDigits[k])})

\* the for loop over smsDigits
RECURSIVE DigitFallback(_, _)
DigitFallback(smsDigits, accounts) ==
    IF smsDigits = <<>> THEN JNull
    ELSE LET account == FindAt(accounts,
                 {i \in DOMAIN accounts : Includes(accounts[i].name, Head(smsDigits))})
         IN  IF account # JUndefined THEN account
             ELSE DigitFallback(Tail(smsDigits), accounts)

\* a match that tries the partial stage before the exact stage
matchAccount_PartialFirst(accountName, sms) ==
    LET exact == FindAt(actualAccounts,
            {i \in DOMAIN actualAccounts : AccountExact(actualAccounts[i], accountName)})
        partial == FindAt(actualAccounts,
            {i \in DOMAIN actualAccounts : AccountPartial(actualAccounts[i], accountName)})
    IN  IF partial # JUndefined THEN partial
        ELSE IF exact # JUndefined THEN exact
        ELSE DigitFallback(extractDigits(sms), actualAccounts)

matchAccount(accountName, sms) ==
    LET exact == FindAt(actualAccounts,
            {i \in DOMAIN actualAccounts : AccountExact(actualAccounts[i], accountName)})
        partial == FindAt(actualAccounts,
            {i \in DOMAIN actualAccounts : AccountPartial(actualAccounts[i], accountName)})
    IN  IF exact # JUndefined THEN exact
        ELSE IF partial # JUndefined THEN partial
        ELSE DigitFallback(extractDigits(sms), actualAccounts)

\* the predicate of the second find of matchCategory (partial match)
CategoryPartial(c, search) ==
    LET name == StripNonWordSpace(ToLowerCase(c.name)) IN
    Includes(name, search) \/ Includes(search, name)

\* a category match that falls back on the first category
matchCategory_Default(categoryName) ==
    IF actualCategories = <<>> THEN JNull ELSE actualCategories[1]

matchCategory(categoryName) ==
    IF ~Truthy(categoryName) THEN JNull
    ELSE LET search == StripNonWordSpace(ToLowerCase(categoryName.v))
             exact == FindAt(actualCategories,
                 {i \in DOMAIN actualCategories :
                     ToLowerCase(actualCategories[i].name) = ToLowerCase(categoryName.v)})
             partial == FindAt(actualCategories,
                 {i \in DOMAIN actualCategories :
                     CategoryPartial(actualCategories[i], search)})
         IN  IF exact # JUndefined THEN exact
             ELSE IF partial # JUndefined THEN partial
             ELSE JNull

----------------------------------------------------------------------------
(* Transaction construction *)

\* the last day of the clock the specifications let pass
MaxDay == 2

Pad2(n) == IF n < 10 THEN <<"0">> \o IntToStr(n) ELSE IntToStr(n)

\* the calendar date of the clock in time zone tz, as en-CA formats its parts
todayISO(tz) == <<"2","0","2","4","-","0","5","-">> \o Pad2(today)

\* Math.round(amount * 100) of an integer amount (null * 100 is 0)
toMinorUnits(amount) == IF amount.t = "num" THEN amount.v * 100 ELSE 0

\* the hex digest of s; taken collision-free, the digest stands for its input
sha256(s) == [sha256 |-> s]

Sep == <<"|", "|">>

\* `${x ?? ""}` of a string or null
OrEmpty(x) == IF x.t = "str" THEN x.v ELSE <<>>

\* date && date.length >= 10 ? date : todayISO(TIMEZONE)
FinalDate(date) ==
    IF Truthy(date) /\ Len(date.v) >= 10 THEN date.v ELSE todayISO("Asia/Kolkata")

\* a key that leaves the description out
IdKey_NoDescription(sms, finalDate, amountInt, description) ==
    sha256(sms \o Sep \o finalDate \o Sep \o IntToStr(amountInt) \o Sep)

\* sha256(`${sms}||${finalDate}||${amountInt}||${description ?? ""}`).slice(0, 32)
IdKey(sms, finalDate, amountInt, description) ==
    sha256(sms \o Sep \o finalDate \o Sep \o IntToStr(amountInt) \o Sep \o OrEmpty(description))

NotesPrefix == <<"S","M","S">>

\* the object literal tx
BuildTx(sms, parsed, account, category) ==
    LET finalDate == FinalDate(parsed.date)
        amountInt == toMinorUnits(parsed.amount)
        categoryId == IF category = JNull THEN JNull ELSE JStr(category.id)
    IN  [account |-> account.id,
         date |-> finalDate,
         amount |-> amountInt,
         payee_name |-> IF Truthy(parsed.description) THEN parsed.description ELSE JNull,
         category |-> categoryId,
         notes |-> Trim(NotesPrefix \o <<":", " ">> \o OrEmpty(parsed.description)),
         imported_id |-> [prefix |-> "sms:",
                          idKey |-> IdKey(sms, finalDate, amountInt, parsed.description)],
         cleared |-> FALSE]

\* names.join(", ")
RECURSIVE Join(_)
Join(names) ==
    IF names = <<>> THEN <<>>
    ELSE IF Len(names) = 1 THEN names[1]
    ELSE names[1] \o <<",", " ">> \o Join(Tail(names))

\* an Error that names the first account only
NoAccountError_FirstOnly(accountName) ==
    [t |-> "error", message |-> "Could not match account", accountName |-> accountName,
     available |-> IF actualAccounts = <<>> THEN <<>> ELSE actualAccounts[1].name]

\* the Error importIntoActual throws when no account matches
NoAccountError(accountName) ==
    [t |-> "error", message |-> "Could not match account", accountName |-> accountName,
     available |-> Join([i \in DOMAIN actualAccounts |-> actualAccounts[i].name])]

----------------------------------------------------------------------------
(* The /ingest pipeline.  Each action is the code one request runs between *)
(* two awaits: it starts when the awaited call settles and ends at the     *)
(* next await or at the response.                                          *)

Requests == {"r1", "r2"}

NewRequest ==
    [pc |-> "idle", ctx |-> "none", sms |-> Pending, reply |-> Pending, parsed |-> Pending,
     e |-> Pending, seen |-> Pending, tx |-> Pending, response |-> Pending]

\* an envelope that hides the message of the error
ErrorEnvelope_Generic(e) == [status |-> 500, ok |-> FALSE, error |-> Err("internal error")]

\* res.status(500).json({ ok: false, error: String(e?.message ?? e) })
ErrorEnvelope(e) == [status |-> 500, ok |-> FALSE, error |-> e]

Respond(rq, response) == [rq EXCEPT !.pc = "done", !.response = response]

\* ensureActualReady up to its first await: it returns at once when the cache
\* is ready, and otherwise awaits ensureDirExists
EnterEnsure(rq, ctx) ==
    IF actualReady /\ Len(actualAccounts) > 0
    THEN [rq EXCEPT !.pc = "ensured", !.ctx = ctx]
    ELSE [rq EXCEPT !.pc = "mkdir", !.ctx = ctx]

\* the catch block of ensureActualReady up to await shutdown()
CatchInit(rq, e) == [rq EXCEPT !.pc = "shutdown", !.e = e]

\* app.post("/ingest") up to its first await
Ingest(r) ==
    /\ req[r].pc = "idle"
    /\ \E sms \in SmsInputs :
          req' = [req EXCEPT ![r] =
                    IF ~Truthy(sms) \/ TypeOf(sms) # "string"
                    THEN Respond(req[r], [status |-> 400, ok |-> FALSE,
                                          error |-> "missing sms string"])
                    ELSE EnterEnsure([req[r] EXCEPT !.sms = sms], "ingest")]
    /\ UNCHANGED <<actualReady, actualAccounts, actualCategories, ledger, ledgerTx,
                   today, call, ret>>

\* ensureDirExists settles: on success init() is awaited; a failure is thrown
\* outside the try block, straight to the route's catch
MkdirDone(r) ==
    /\ req[r].pc = "mkdir"
    /\ \E ok \in BOOLEAN :
          req' = [req EXCEPT ![r] =
                    IF ok THEN [req[r] EXCEPT !.pc = "init"]
                    ELSE Respond(req[r], ErrorEnvelope(Err("mkdir failed")))]
    /\ UNCHANGED <<actualReady, actualAccounts, actualCategories, ledger, ledgerTx,
                   today, call, ret>>

\* init() settles
InitDone(r) ==
    /\ req[r].pc = "init"
    /\ \/ /\ ledger' = IF ledger = "down" THEN "inited" ELSE ledger
          /\ req' = [req EXCEPT ![r].pc = "download"]
       \/ /\ ledger' = "down"
          /\ req' = [req EXCEPT ![r] = CatchInit(req[r], Err("init failed"))]
    /\ UNCHANGED <<actualReady, actualAccounts, actualCategories, ledgerTx, today,
                   call, ret>>

\* downloadBudget() settles
DownloadDone(r) ==
    /\ req[r].pc = "download"
    /\ \/ /\ ledger # "down"
          /\ ledger' = "loaded"
          /\ req' = [req EXCEPT ![r].pc = "getAccounts"]
       \/ /\ ledger' = "down"
          /\ req' = [req EXCEPT ![r] = CatchInit(req[r], Err("downloadBudget failed"))]
    /\ UNCHANGED <<actualReady, actualAccounts, actualCategories, ledgerTx, today,
                   call, ret>>

\* a cache that keeps closed accounts
ActiveAccounts_All(accounts) == accounts

\* accounts.filter((a) => !a.closed)
ActiveAccounts(accounts) == SelectSeq(accounts, LAMBDA a : ~a.closed)

\* categories.filter((c) => !c.hidden && c.name)
VisibleCategories(categories) == SelectSeq(categories, LAMBDA c : ~c.hidden /\ c.name # <<>>)

\* getAccounts() settles
GetAccountsDone(r) ==
    /\ req[r].pc = "getAccounts"
    /\ \/ /\ ledger = "loaded"
          /\ \E accounts \in StoreAccounts :
                /\ actualAccounts' = ActiveAccounts(accounts)
                /\ IF Len(ActiveAccounts(accounts)) = 0
                   THEN /\ ledger' = "down"
                        /\ req' = [req EXCEPT ![r] = CatchInit(req[r],
                                       Err("No active accounts found in Actual Budget"))]
                   ELSE /\ ledger' = ledger
                        /\ req' = [req EXCEPT ![r].pc = "getCategories"]
       \/ /\ ledger' = "down"
          /\ actualAccounts' = actualAccounts
          /\ req' = [req EXCEPT ![r] = CatchInit(req[r], Err("getAccounts failed"))]
    /\ UNCHANGED <<actualReady, actualCategories, ledgerTx, today, call, ret>>

\* getCategories() settles
GetCategoriesDone(r) ==
    /\ req[r].pc = "getCategories"
    /\ \/ /\ ledger = "loaded"
          /\ actualCategories' = VisibleCategories(StoreCategories)
          /\ actualReady' = TRUE
          /\ ledger' = ledger
          /\ req' = [req EXCEPT ![r].pc = "ensured"]
       \/ /\ ledger' = "down"
          /\ UNCHANGED <<actualCategories, actualReady>>
          /\ req' = [req EXCEPT ![r] = CatchInit(req[r], Err("getCategories failed"))]
    /\ UNCHANGED <<actualAccounts, ledgerTx, today, call, ret>>

\* a catch block that leaves the cache as it is
ShutdownDone_KeepCache(r) ==
    /\ req[r].pc = "shutdown"
    /\ req' = [req EXCEPT ![r] = Respond(req[r], ErrorEnvelope(req[r].e))]
    /\ UNCHANGED <<actualReady, actualAccounts, actualCategories, ledger, ledgerTx,
                   today, call, ret>>

\* shutdown() settles (a rejection is swallowed): the cache is reset and the
\* error caught is thrown on to the route's catch
ShutdownDone(r) ==
    /\ req[r].pc = "shutdown"
    /\ actualReady' = FALSE
    /\ actualAccounts' = <<>>
    /\ actualCategories' = <<>>
    /\ req' = [req EXCEPT ![r] = Respond(req[r], ErrorEnvelope(req[r].e))]
    /\ UNCHANGED <<ledger, ledgerTx, today, call, ret>>

\* the route resumes after await ensureActualReady(): getActualData, then
\* ollamaParse up to its fetch
EnsuredIngest(r) ==
    /\ req[r].pc = "ensured"
    /\ req[r].ctx = "ingest"
    /\ req' = [req EXCEPT ![r].pc = "fetch"]
    /\ UNCHANGED <<actualReady, actualAccounts, actualCategories, ledger, ledgerTx,
                   today, call, ret>>

ValidateIfParsed(p) == IF IsError(p) THEN p ELSE validateParsed(p)

\* validateParsed(await ollamaParse(sms, actualData)) for each reply of Replies
Validated ==
    [i \in DOMAIN Replies |->
        ValidateIfParsed(ollamaParse(Replies[i]))]

\* a route that lacks the null amount exit
AfterValidate_NoIgnore(rq, parsed) ==
    IF IsError(parsed) THEN Respond(rq, ErrorEnvelope(parsed))
    ELSE EnterEnsure([rq EXCEPT !.parsed = parsed], "import")

\* the route after validateParsed: an error goes to the catch, a null amount
\* ends the request as ignored, any other amount enters importIntoActual
AfterValidate(rq, parsed) ==
    IF IsError(parsed) THEN Respond(rq, ErrorEnvelope(parsed))
    ELSE IF parsed.amount = JNull
    THEN Respond([rq EXCEPT !.parsed = parsed],
                 [status |-> 200, ok |-> TRUE, ignored |-> TRUE, parsed |-> parsed])
    ELSE EnterEnsure([rq EXCEPT !.parsed = parsed], "import")

\* fetch settles: the reply is parsed and validated, or fetch rejects
FetchDone(r) ==
    /\ req[r].pc = "fetch"
    /\ \/ \E i \in DOMAIN Replies :
            req' = [req EXCEPT ![r] =
                      AfterValidate([req[r] EXCEPT !.reply = [i |-> i]], Validated[i])]
       \/ req' = [req EXCEPT ![r] = Respond(req[r], ErrorEnvelope(Err("fetch failed")))]
    /\ UNCHANGED <<actualReady, actualAccounts, actualCategories, ledger, ledgerTx,
                   today, call, ret>>

\* importIntoActual resumes after await ensureActualReady(): the account and
\* the category are matched, tx is built and importTransactions is called
EnsuredImport(r) ==
    /\ req[r].pc = "ensured"
    /\ req[r].ctx = "import"
    /\ LET rq == [req[r] EXCEPT !.seen = [accounts |-> actualAccounts,
                                          categories |-> actualCategories]]
           account == matchAccount(rq.parsed.account, rq.sms.v)
           category == matchCategory(rq.parsed.category)
       IN  req' = [req EXCEPT ![r] =
                     IF account = JNull
                     THEN Respond(rq, ErrorEnvelope(NoAccountError(rq.parsed.account)))
                     ELSE [rq EXCEPT !.pc = "import",
                                     !.tx = BuildTx(rq.sms.v, rq.parsed, account, category)]]
    /\ UNCHANGED <<actualReady, actualAccounts, actualCategories, ledger, ledgerTx,
                   today, call, ret>>

\* importTransactions settles: the store keeps one entry per imported_id
ImportDone(r) ==
    /\ req[r].pc = "import"
    /\ \/ /\ ledger = "loaded"
          /\ ledgerTx' = ledgerTx \cup {req[r].tx.imported_id}
          /\ req' = [req EXCEPT ![r] = Respond(req[r],
                        [status |-> 200, ok |-> TRUE, ignored |-> FALSE,
                         parsed |-> req[r].parsed,
                         imported |-> [finalDate |-> req[r].tx.date, tx |-> req[r].tx]])]
       \/ /\ ledgerTx' = ledgerTx
          /\ req' = [req EXCEPT ![r] = Respond(req[r],
                        ErrorEnvelope(Err("importTransactions failed")))]
    /\ UNCHANGED <<actualReady, actualAccounts, actualCategories, ledger, today,
                   call, ret>>

\* midnight passes in TIMEZONE
Tick ==
    /\ today < MaxDay
    /\ today' = today + 1
    /\ UNCHANGED <<actualReady, actualAccounts, actualCategories, ledger, ledgerTx,
                   req, call, ret>>

Init ==
    /\ actualReady = FALSE
    /\ actualAccounts = <<>>
    /\ actualCategories = <<>>
    /\ ledger = "down"
    /\ ledgerTx = {}
    /\ today = 1
    /\ req = [r \in Requests |-> NewRequest]
    /\ call = Pending
    /\ ret = Pending

Next ==
    \/ \E r \in Requests :
          \/ Ingest(r)
          \/ MkdirDone(r)
          \/ InitDone(r)
          \/ DownloadDone(r)
          \/ GetAccountsDone(r)
          \/ GetCategoriesDone(r)
          \/ ShutdownDone(r)
          \/ EnsuredIngest(r)
          \/ FetchDone(r)
          \/ EnsuredImport(r)
          \/ ImportDone(r)
    \/ Tick

Spec == Init /\ [][Next]_vars

----------------------------------------------------------------------------
(* Properties of the /ingest pipeline (specification Spec) *)

\* C1: a request whose validated extraction has amount = null ends with the
\* response ignored:true, and matchAccount, matchCategory, the construction
\* of tx and importTransactions never run for it
C1_NullAmountIgnored ==
    \A r \in Requests :
        (req[r].parsed # Pending /\ req[r].parsed.amount = JNull)
        => /\ req[r].pc = "done"
           /\ req[r].response = [status |-> 200, ok |-> TRUE, ignored |-> TRUE,
                                 parsed |-> req[r].parsed]
           /\ req[r].seen = Pending
           /\ req[r].tx = Pending

\* a request ignored although its other four fields are not null
C1_Witness ==
    \E r \in Requests :
        /\ req[r].parsed # Pending
        /\ req[r].parsed.amount = JNull
        /\ req[r].parsed.account # JNull
        /\ req[r].parsed.description # JNull
        /\ req[r].pc = "done"

\* C2: two requests carrying the same message for which the model returned
\* the same extraction call importTransactions with the same imported_id,
\* whenever they are processed
C2_SameMessageSameKey ==
    \A r1, r2 \in Requests :
        (/\ req[r1].tx # Pending
         /\ req[r2].tx # Pending
         /\ req[r1].sms = req[r2].sms
         /\ req[r1].parsed = req[r2].parsed)
        => req[r1].tx.imported_id = req[r2].tx.imported_id

\* the account stages of matchAccount, stated on a catalog
ExactHits(accounts, accountName) ==
    {i \in DOMAIN accounts : AccountExact(accounts[i], accountName)}
PartialHits(accounts, accountName) ==
    {i \in DOMAIN accounts : AccountPartial(accounts[i], accountName)}
DigitHits(accounts, sms) ==
    {i \in DOMAIN accounts :
        \E k \in DOMAIN extractDigits(sms) : Includes(accounts[i].name, extractDigits(sms)[k])}
NoStageMatches(accounts, accountName, sms) ==
    /\ ExactHits(accounts, accountName) = {}
    /\ PartialHits(accounts, accountName) = {}
    /\ DigitHits(accounts, sms) = {}

\* C5: the account id handed to importTransactions is the id of an account
\* that was in the catalog cache when matchAccount ran, and that is not closed
C5_AccountFromCache ==
    \A r \in Requests :
        req[r].tx # Pending
        => \E i \in DOMAIN req[r].seen.accounts :
              /\ req[r].seen.accounts[i].id = req[r].tx.account
              /\ ~req[r].seen.accounts[i].closed

\* importTransactions was called with an account of the cache, and the cache
\* has been reset since by another request
C5_Witness ==
    \E r \in Requests :
        /\ req[r].tx # Pending
        /\ req[r].seen.accounts # <<>>
        /\ actualAccounts = <<>>

\* C6: when no account stage yields a match the request ends with the error
\* envelope whose message lists the name of every account of the cache, and
\* importTransactions is not called
C6_NoMatchListsAccounts ==
    \A r \in Requests :
        (/\ req[r].seen # Pending
         /\ NoStageMatches(req[r].seen.accounts, req[r].parsed.account, req[r].sms.v))
        => /\ req[r].tx = Pending
           /\ req[r].pc = "done"
           /\ req[r].response.status = 500
           /\ req[r].response.error.message = "Could not match account"
           /\ req[r].response.error.accountName = req[r].parsed.account
           /\ \A i \in DOMAIN req[r].seen.accounts :
                 Includes(req[r].response.error.available, req[r].seen.accounts[i].name)

\* an unmatched account with two accounts in the cache
C6_Witness ==
    \E r \in Requests :
        /\ req[r].seen # Pending
        /\ Len(req[r].seen.accounts) >= 2
        /\ NoStageMatches(req[r].seen.accounts, req[r].parsed.account, req[r].sms.v)
        /\ req[r].pc = "done"

\* the category stages of matchCategory, stated on a catalog
CategoryHits(categories, categoryName) ==
    {i \in DOMAIN categories :
        \/ ToLowerCase(categories[i].name) = ToLowerCase(categoryName.v)
        \/ Includes(StripNonWordSpace(ToLowerCase(categories[i].name)),
                    StripNonWordSpace(ToLowerCase(categoryName.v)))
        \/ Includes(StripNonWordSpace(ToLowerCase(categoryName.v)),
                    StripNonWordSpace(ToLowerCase(categories[i].name)))}

\* C7: once the account is matched the transaction is imported whatever the
\* category label; a null label or a label no cached category matches gives
\* category = null, and a category that is not null is a visible category of
\* the cache
C7_CategoryNeverFails ==
    \A r \in Requests :
        (/\ req[r].seen # Pending
         /\ ~NoStageMatches(req[r].seen.accounts, req[r].parsed.account, req[r].sms.v))
        => /\ req[r].tx # Pending
           /\ (\/ req[r].parsed.category = JNull
               \/ CategoryHits(req[r].seen.categories, req[r].parsed.category) = {})
              => req[r].tx.category = JNull
           /\ req[r].tx.category # JNull
              => \E i \in DOMAIN req[r].seen.categories :
                    /\ JStr(req[r].seen.categories[i].id) = req[r].tx.category
                    /\ ~req[r].seen.categories[i].hidden
                    /\ req[r].seen.categories[i].name # <<>>

\* importTransactions called with category = null for a label that is not null
C7_Witness ==
    \E r \in Requests :
        /\ req[r].tx # Pending
        /\ req[r].parsed.category # JNull
        /\ req[r].seen.categories # <<>>
        /\ req[r].tx.category = JNull

----------------------------------------------------------------------------
(* The idempotency key as a function of its four inputs (specification     *)
(* SpecKey): two input tuples are drawn, IdKey is applied to both.         *)

\* the pipeline at rest
Idle ==
    /\ actualReady = FALSE
    /\ actualAccounts = <<>>
    /\ actualCategories = <<>>
    /\ ledger = "down"
    /\ ledgerTx = {}
    /\ today = 1
    /\ req = [r \in Requests |-> NewRequest]

KeyMessages == {<<"a">>, <<"a","|","|","2","0","2","4","-","0","5","-","0","1","|","|","1","0","0","0","0","|","|","x">>}
KeyDates == {Str_Date, <<"2","0","2","4","-","0","5","-","0","2">>}
KeyAmounts == {10000, -500}
KeyDescriptions == {JNull, JStr(<<>>), JStr(<<"x">>), JStr(<<"x","|","|","2","0","2","4","-","0","5","-","0","1","|","|","1","0","0","0","0","|","|">>)}
KeyTuples ==
    [sms : KeyMessages, finalDate : KeyDates, amountInt : KeyAmounts,
     description : KeyDescriptions]

InitKey ==
    /\ Idle
    /\ call \in [op : {"IdKey"}, a : KeyTuples, b : KeyTuples]
    /\ ret = Pending

CallIdKey ==
    /\ ret = Pending
    /\ ret' = [a |-> IdKey(call.a.sms, call.a.finalDate, call.a.amountInt, call.a.description),
               b |-> IdKey(call.b.sms, call.b.finalDate, call.b.amountInt, call.b.description)]
    /\ UNCHANGED <<actualReady, actualAccounts, actualCategories, ledger, ledgerTx,
                   today, req, call>>

SpecKey == InitKey /\ [][CallIdKey]_vars

KeyFields == {"sms", "finalDate", "amountInt", "description"}

\* a description as the key reads it: null is the empty string
AsRead(t) == [t EXCEPT !.description = JStr(OrEmpty(t.description))]

\* C3 as stated: equal input tuples give equal keys, and two tuples that
\* differ in exactly one of the four inputs give different keys, the
\* description ranging over null and all strings
C3_OneInputChangesKey ==
    ret # Pending
    => /\ call.a = call.b => ret.a = ret.b
       /\ Cardinality({f \in KeyFields : call.a[f] # call.b[f]}) = 1 => ret.a # ret.b

\* C3 amended: equal input tuples give equal keys, and two tuples that differ
\* in exactly one of the four inputs, a null description being read as the
\* empty string, give different keys
C3_OneInputChangesKeyNullAsEmpty ==
    ret # Pending
    => /\ call.a = call.b => ret.a = ret.b
       /\ Cardinality({f \in KeyFields : AsRead(call.a)[f] # AsRead(call.b)[f]}) = 1
          => ret.a # ret.b

\* two keys computed from tuples that differ in the description only, one of
\* them null
C3_Witness ==
    /\ ret # Pending
    /\ {f \in KeyFields : call.a[f] # call.b[f]} = {"description"}
    /\ call.a.description = JNull
    /\ call.b.description = JStr(<<"x">>)
    /\ ret.a # ret.b

----------------------------------------------------------------------------
(* matchAccount as a function of the catalog, the label and the message    *)
(* (specification SpecMatch).                                              *)

MaxCatalog == 2

Acc_Plain == [id |-> "a5", name |-> <<"H","S","B","C">>, closed |-> FALSE]
MatchAccounts == {Acc_HSBC, Acc_ICICI, Acc_Cash, Acc_Plain}
MatchCatalogs == UNION {[1..n -> MatchAccounts] : n \in 0..MaxCatalog}
MatchLabels ==
    {JNull, JStr(<<>>), JStr(<<"h","s","b","c"," ","*","0","0","0","1">>), JStr(<<"h","s","b","c">>), JStr(<<"I","C","I","C","I","2","9","7","9">>), JStr(Str_Unknown),
     JStr(<<"c","a","r","d"," ","2","9","7","9">>), JStr(<<"b","c"," ","*","0","0">>), JStr(<<"c","0">>)}
Sms_Two == <<"0","0","0","1"," ","t","h","e","n"," ","2","9","7","9">>
Sms_Long == <<"R","e","f"," ","0","0","0","1","2","9","7","9"," ","o","k">>
MatchMessages == {Sms_Card, Sms_Cafe, Sms_Two, Sms_Long}

InitMatch ==
    /\ actualReady = TRUE
    /\ actualAccounts \in MatchCatalogs
    /\ actualCategories = <<>>
    /\ ledger = "loaded"
    /\ ledgerTx = {}
    /\ today = 1
    /\ req = [r \in Requests |-> NewRequest]
    /\ call \in [op : {"matchAccount"}, accountName : MatchLabels, sms : MatchMessages]
    /\ ret = Pending

CallMatchAccount ==
    /\ ret = Pending
    /\ ret' = matchAccount(call.accountName, call.sms)
    /\ UNCHANGED <<actualReady, actualAccounts, actualCategories, ledger, ledgerTx,
                   today, req, call>>

SpecMatch == InitMatch /\ [][CallMatchAccount]_vars

\* C4: an account with an exact match is returned whenever one exists, even
\* if an earlier account satisfies the partial or the digit stage; without
\* an exact match, an account with a partial match is returned whenever one
\* exists, even if a four-digit run of the message occurs in another name
C4_StrictPriority ==
    ret # Pending
    => /\ ExactHits(actualAccounts, call.accountName) # {}
          => \E i \in ExactHits(actualAccounts, call.accountName) : ret = actualAccounts[i]
       /\ (/\ ExactHits(actualAccounts, call.accountName) = {}
           /\ PartialHits(actualAccounts, call.accountName) # {})
          => \E i \in PartialHits(actualAccounts, call.accountName) : ret = actualAccounts[i]

\* the exact match is returned although an earlier account, which is not an
\* exact match, satisfies both the partial and the digit stage
C4_Witness ==
    /\ ret # Pending
    /\ \E i \in ExactHits(actualAccounts, call.accountName) :
          /\ ret = actualAccounts[i]
          /\ \E j \in 1..(i - 1) :
                /\ j \notin ExactHits(actualAccounts, call.accountName)
                /\ j \in PartialHits(actualAccounts, call.accountName)
                /\ j \in DigitHits(actualAccounts, call.sms)

----------------------------------------------------------------------------
(* validateParsed as a function of the value parsed from the model text    *)
(* (specification SpecValidate).                                           *)

\* what a field of the parsed object may hold: nothing, null, a number, a
\* string, a boolean
FieldValues == {JUndefined, JNull, JNum(7), JStr(<<"7">>), JBool(FALSE)}

Member(key, v) == IF v = JUndefined THEN <<>> ELSE <<<<key, v>>>>

ObjectOf(f) ==
    JObj(Member(Key_amount, f.amount) \o Member(Key_description, f.description)
         \o Member(Key_date, f.date) \o Member(Key_account, f.account)
         \o Member(Key_category, f.category))

ValidateInputs ==
    {ObjectOf(f) : f \in [amount : FieldValues, description : FieldValues,
                          date : FieldValues, account : FieldValues,
                          category : FieldValues]}
    \cup {JNull, JNum(0), JNum(7), JStr(<<>>), JStr(<<"x">>), JBool(TRUE), JBool(FALSE),
          [t |-> "arr", v |-> <<>>], [t |-> "arr", v |-> <<JNum(7)>>],
          JObj(<<<<Key_amount, JNum(7)>>, <<Key_description, JNull>>, <<Key_date, JNull>>,
                 <<Key_account, JNull>>, <<Key_category, JNull>>,
                 <<<<"n","o","t","e">>, JStr(<<"x">>)>>>>)}

InitValidate ==
    /\ Idle
    /\ call \in [op : {"validateParsed"}, p : ValidateInputs]
    /\ ret = Pending

CallValidateParsed ==
    /\ ret = Pending
    /\ ret' = validateParsed(call.p)
    /\ UNCHANGED <<actualReady, actualAccounts, actualCategories, ledger, ledgerTx,
                   today, req, call>>

SpecValidate == InitValidate /\ [][CallValidateParsed]_vars

\* the values validateParsed is said to accept
Acceptable(p) ==
    /\ p.t = "obj"
    /\ GetProp(p, Key_amount).t \in {"null", "num"}
    /\ \A key \in {Key_description, Key_date, Key_account, Key_category} :
          GetProp(p, key).t \in {"null", "str"}

\* C8: validateParsed accepts p exactly when p is an object whose amount is
\* null or a number and whose description, date, account and category are
\* each null or a string; it throws otherwise, and an accepted p comes back
\* as exactly these five fields with their values unchanged
C8_ValidateAcceptsIff ==
    ret # Pending
    => /\ IsError(ret) <=> ~Acceptable(call.p)
       /\ ~IsError(ret)
          => /\ DOMAIN ret = {"t", "amount", "description", "date", "account", "category"}
             /\ ret.amount = GetProp(call.p, Key_amount)
             /\ ret.description = GetProp(call.p, Key_description)
             /\ ret.date = GetProp(call.p, Key_date)
             /\ ret.account = GetProp(call.p, Key_account)
             /\ ret.category = GetProp(call.p, Key_category)

\* an accepted object that mixes a number, nulls and strings
C8_Witness ==
    /\ ret # Pending
    /\ ~IsError(ret)
    /\ ret.amount = JNum(7)
    /\ ret.description = JNull
    /\ ret.date = JStr(<<"7">>)
    /\ ret.category = JNull

----------------------------------------------------------------------------
(* parseModelJsonFromText on a model text made of prose, one JSON object,  *)
(* fenced or not, and prose again (specification SpecParse).               *)

Obj_Plain == JObj(<<<<<<"a","m","o","u","n","t">>, JNum(-500)>>, <<<<"d","e","s","c","r","i","p","t","i","o","n">>, JStr(<<"A","m","a","z","o","n">>)>>, <<<<"d","a","t","e">>, JNull>>>>)
Obj_Nested == JObj(<<<<<<"a">>, JObj(<<<<<<"b">>, JNum(1)>>>>)>>, <<<<"c">>, [t |-> "arr", v |-> <<JNum(1), JObj(<<<<<<"d">>, JStr(<<"x">>)>>>>)>>]>>>>)
Obj_Quote == JObj(<<<<<<"a">>, JStr(<<"s","a","y"," ","\"","h","i","\""," ","\\"," ","o","k">>)>>>>)
Obj_Tick == JObj(<<<<<<"a">>, JStr(<<"x",Backquote,"y">>)>>>>)
Obj_Close == JObj(<<<<<<"a">>, JStr(<<"x","}","y">>)>>>>)
Obj_Open == JObj(<<<<<<"a">>, JStr(<<"{">>)>>>>)
Obj_Fence == JObj(<<<<<<"a">>, JStr(<<Backquote,Backquote,Backquote,"x",Backquote,Backquote,Backquote>>)>>>>)
Obj_Empty == JObj(<<>>)
ParseObjects ==
    {Obj_Plain, Obj_Nested, Obj_Quote, Obj_Tick, Obj_Close, Obj_Open, Obj_Fence, Obj_Empty}

ProseBefore == {<<>>, <<"S","u","r","e",":"," ">>, <<"[">>}
ProseAfter == {<<>>, <<" ","o","k">>, <<"]">>}
FenceKinds == {"none", "bare", "json", "JSON"}

\* the object text as the model writes it, in a fence or not
Fenced(kind, objText) ==
    CASE kind = "none" -> objText
      [] kind = "bare" -> Fence \o <<"\n">> \o objText \o <<"\n">> \o Fence
      [] kind = "json" -> Fence \o Tag_json \o <<"\n">> \o objText \o <<"\n">> \o Fence
      [] kind = "JSON" -> Fence \o <<"J","S","O","N"," ">> \o objText \o Fence

ParseCall(pre, kind, obj, post) ==
    [op |-> "parseModelJsonFromText", pre |-> pre, kind |-> kind, obj |-> obj, post |-> post,
     text |-> pre \o Fenced(kind, JsonStringify(obj)) \o post]

InitParse ==
    /\ Idle
    /\ call \in {ParseCall(pre, kind, obj, post) :
                    pre \in ProseBefore, kind \in FenceKinds,
                    obj \in ParseObjects, post \in ProseAfter}
    /\ ret = Pending

CallParseModelJson ==
    /\ ret = Pending
    /\ ret' = parseModelJsonFromText(call.text)
    /\ UNCHANGED <<actualReady, actualAccounts, actualCategories, ledger, ledgerTx,
                   today, req, call>>

SpecParse == InitParse /\ [][CallParseModelJson]_vars

\* the keys and the string values of a JSON value
RECURSIVE StringsOf(_)
StringsOf(v) ==
    CASE v.t = "str" -> {v.v}
      [] v.t = "obj" -> {v.v[i][1] : i \in DOMAIN v.v}
                        \cup UNION {StringsOf(v.v[i][2]) : i \in DOMAIN v.v}
      [] v.t = "arr" -> UNION {StringsOf(v.v[i]) : i \in DOMAIN v.v}
      [] OTHER -> {}

\* prose: text without braces, square brackets and backquotes
IsProse(str) == \A i \in DOMAIN str : str[i] \notin {"{", "}", "[", "]", Backquote}

\* a string without braces and without a run of three backquotes
IsBraceFree(str) ==
    /\ \A i \in DOMAIN str : str[i] \notin {"{", "}"}
    /\ Occurrences(str, Fence) = {}

----------------------------------------------------------------------------
(* ollamaChatText on a response body made of lines (specification          *)
(* SpecChat).  A line is written with what it holds: its text, the string  *)
(* content it carries (empty if none), whether done is true, whether it    *)
(* parses.                                                                 *)

MaxLines == 3

Line_Text ==
    [text |-> <<"{","\"","m","e","s","s","a","g","e","\"",":","{","\"","c","o","n","t","e","n","t","\"",":","\"","a","b","\"","}",",","\"","d","o","n","e","\"",":","f","a","l","s","e","}">>,
     content |-> <<"a","b">>, done |-> FALSE, ok |-> TRUE]
Line_Last ==
    [text |-> <<"{","\"","m","e","s","s","a","g","e","\"",":","{","\"","c","o","n","t","e","n","t","\"",":","\"","c","\"","}",",","\"","d","o","n","e","\"",":","t","r","u","e","}">>,
     content |-> <<"c">>, done |-> TRUE, ok |-> TRUE]
Line_Blank ==
    [text |-> <<"{","\"","m","e","s","s","a","g","e","\"",":","{","\"","c","o","n","t","e","n","t","\"",":","\"","\"","}",",","\"","d","o","n","e","\"",":","f","a","l","s","e","}">>,
     content |-> <<>>, done |-> FALSE, ok |-> TRUE]
Line_Garbage ==
    [text |-> <<"d","a","t","a",":"," ","o","o","p","s">>,
     content |-> <<>>, done |-> FALSE, ok |-> FALSE]
Line_DoneOnly ==
    [text |-> <<"{","\"","d","o","n","e","\"",":","t","r","u","e","}">>,
     content |-> <<>>, done |-> TRUE, ok |-> TRUE]
Line_Number ==
    [text |-> <<"{","\"","m","e","s","s","a","g","e","\"",":","{","\"","c","o","n","t","e","n","t","\"",":","5","}",",","\"","d","o","n","e","\"",":","f","a","l","s","e","}">>,
     content |-> <<>>, done |-> FALSE, ok |-> TRUE]
Line_DoneString ==
    [text |-> <<"{","\"","m","e","s","s","a","g","e","\"",":","{","\"","c","o","n","t","e","n","t","\"",":","\"","d","\"","}",",","\"","d","o","n","e","\"",":","\"","t","r","u","e","\"","}">>,
     content |-> <<"d">>, done |-> FALSE, ok |-> TRUE]
ChatLines ==
    {Line_Text, Line_Last, Line_Blank, Line_Garbage, Line_DoneOnly, Line_Number,
     Line_DoneString}

RECURSIVE BodyOf(_)
BodyOf(lines) ==
    IF lines = <<>> THEN <<>> ELSE Head(lines).text \o <<"\n">> \o BodyOf(Tail(lines))

InitChat ==
    /\ Idle
    /\ call \in {[op |-> "ollamaChatText", lines |-> lines, body |-> BodyOf(lines)] :
                    lines \in UNION {[1..n -> ChatLines] : n \in 1..MaxLines}}
    /\ ret = Pending

CallOllamaChatText ==
    /\ ret = Pending
    /\ ret' = ollamaChatText([ok |-> TRUE, status |-> 200, body |-> call.body])
    /\ UNCHANGED <<actualReady, actualAccounts, actualCategories, ledger, ledgerTx,
                   today, req, call>>

SpecChat == InitChat /\ [][CallOllamaChatText]_vars

\* the string contents of the parseable lines, in line order, up to and
\* with the first parseable line whose done is true
RECURSIVE Concatenation(_)
Concatenation(lines) ==
    IF lines = <<>> THEN <<>>
    ELSE IF ~Head(lines).ok THEN Concatenation(Tail(lines))
    ELSE IF Head(lines).done THEN Head(lines).content
    ELSE Head(lines).content \o Concatenation(Tail(lines))

\* the body is one JSON document: one line, and it parses
SingleDocument(lines) == Len(lines) = 1 /\ lines[1].ok

\* C10 as stated: on a body that is not a single JSON document
\* ollamaChatText returns the concatenation, in line order, of the string
\* content of the parseable lines up to the first line whose done is true
C10_ReturnsConcatenation ==
    (ret # Pending /\ ~SingleDocument(call.lines))
    => ret = JStr(Concatenation(call.lines))

\* C10 amended: on a body that is not a single JSON document ollamaChatText
\* returns that concatenation when it is not empty, and throws when it is
C10_ReturnsNonEmptyConcatenation ==
    (ret # Pending /\ ~SingleDocument(call.lines))
    => IF Concatenation(call.lines) # <<>>
       THEN ret = JStr(Concatenation(call.lines))
       ELSE IsError(ret)

\* a text assembled from a body with a line that does not parse and with a
\* line that carries content after the first done line
C10_Witness ==
    /\ ret # Pending
    /\ \E i, j, k \in DOMAIN call.lines :
          /\ ~call.lines[i].ok
          /\ call.lines[j].ok /\ call.lines[j].done
          /\ j < k
          /\ call.lines[k].content # <<>>
    /\ Concatenation(call.lines) # <<>>
    /\ ret = JStr(Concatenation(call.lines))

----------------------------------------------------------------------------
(* More properties of ollamaChatText (specification SpecChat) *)

\* the body carries no content: a single document without message.content,
\* or a stream whose lines contribute no content
CarriesNoContent(lines) ==
    IF SingleDocument(lines) THEN lines[1] = Line_DoneOnly
    ELSE Concatenation(lines) = <<>>

\* C11: whenever the body carries no content, in either shape, ollamaChatText
\* throws and returns no text for the parser
C11_NoContentThrows ==
    (ret # Pending /\ CarriesNoContent(call.lines)) => IsError(ret)

----------------------------------------------------------------------------
(* Properties of ensureActualReady in the pipeline (specification Spec) *)

\* the steps of the try block, the step that follows each, and the errors
\* each can throw
InitSteps == {"init", "download", "getAccounts", "getCategories"}
StepAfter(pc) ==
    CASE pc = "init" -> "download"
      [] pc = "download" -> "getAccounts"
      [] pc = "getAccounts" -> "getCategories"
      [] pc = "getCategories" -> "ensured"
StepErrors(pc) ==
    CASE pc = "init" -> {"init failed"}
      [] pc = "download" -> {"downloadBudget failed"}
      [] pc = "getAccounts" -> {"getAccounts failed",
                                "No active accounts found in Actual Budget"}
      [] pc = "getCategories" -> {"getCategories failed"}

\* C12: a step of the initialisation that fails (init, downloadBudget,
\* getAccounts, no active account, getCategories) calls shutdown; when the
\* catch block ends the cache is reset (actualReady false, no accounts, no
\* categories) and the request answers with the error of the failed step;
\* and a call of ensureActualReady returns at once only on a ready cache,
\* otherwise it runs the sequence from mkdir and init
C12_FailedInitResets ==
    [][\A r \in Requests :
          /\ (/\ req[r].pc \in InitSteps
              /\ req'[r].pc # req[r].pc
              /\ req'[r].pc # StepAfter(req[r].pc))
             => /\ req'[r].pc = "shutdown"
                /\ req'[r].e.message \in StepErrors(req[r].pc)
          /\ (req[r].pc = "shutdown" /\ req'[r].pc # "shutdown")
             => /\ actualReady' = FALSE
                /\ actualAccounts' = <<>>
                /\ actualCategories' = <<>>
                /\ req'[r].pc = "done"
                /\ req'[r].response = ErrorEnvelope(req[r].e)
          /\ (req[r].pc \in {"idle", "fetch"} /\ req'[r].pc \notin {req[r].pc, "done"})
             => IF actualReady /\ Len(actualAccounts) > 0
                THEN req'[r].pc = "ensured"
                ELSE req'[r].pc = "mkdir"
          /\ (req[r].pc = "mkdir" /\ req'[r].pc \notin {"mkdir", "done"})
             => req'[r].pc = "init"
    ]_vars

\* a request has answered with the error of its failed initialisation, the
\* cache is reset, and the other request, which had passed ensureActualReady
\* once, is running init again for its import
C12_Witness ==
    \E r1, r2 \in Requests :
        /\ r1 # r2
        /\ req[r1].pc = "done"
        /\ req[r1].e # Pending
        /\ req[r1].response = ErrorEnvelope(req[r1].e)
        /\ ~actualReady
        /\ actualAccounts = <<>>
        /\ actualCategories = <<>>
        /\ req[r2].ctx = "import"
        /\ req[r2].pc = "init"

\* C13: once the cache is ready (actualReady true, accounts present) no step
\* of any request changes actualReady, actualAccounts or actualCategories
C13_ReadyCacheReadOnly ==
    [][(actualReady /\ Len(actualAccounts) > 0)
       => UNCHANGED <<actualReady, actualAccounts, actualCategories>>]_vars

\* C19: while a call of importTransactions is in flight the ledger is
\* initialised: init and downloadBudget have succeeded and no shutdown has
\* started since
C19_ImportOnlyWhileLoaded ==
    \A r \in Requests : req[r].pc = "import" => ledger = "loaded"

----------------------------------------------------------------------------
(* The order of the stages within one request (specification Spec) *)

\* what ollamaChatText returns or throws on each reply, and what
\* parseModelJsonFromText then returns or throws
ChatTexts == [i \in DOMAIN Replies |-> ollamaChatText(Replies[i])]
ParsedObjects == [i \in DOMAIN Replies |-> ParseContentText(ChatTexts[i])]

\* C14: importTransactions is called for a request only after, in that
\* request, the gateway returned a text, the parser returned an object,
\* validation accepted it with an amount that is not null, and an account was
\* matched; a request whose gateway, parser or validation stage threw, or
\* whose account did not match, has answered with the error envelope of that
\* stage's error and has not called importTransactions
C14_ImportAfterAllStages ==
    \A r \in Requests :
        /\ req[r].tx # Pending
           => /\ req[r].reply # Pending
              /\ ChatTexts[req[r].reply.i].t = "str"
              /\ ParsedObjects[req[r].reply.i].t = "obj"
              /\ req[r].parsed = Validated[req[r].reply.i]
              /\ req[r].parsed.t = "parsed"
              /\ req[r].parsed.amount # JNull
              /\ req[r].seen # Pending
              /\ ~NoStageMatches(req[r].seen.accounts, req[r].parsed.account, req[r].sms.v)
        /\ (req[r].reply # Pending /\ IsError(Validated[req[r].reply.i]))
           => /\ req[r].pc = "done"
              /\ req[r].response =
                    [status |-> 500, ok |-> FALSE, error |-> Validated[req[r].reply.i]]
              /\ req[r].seen = Pending
              /\ req[r].tx = Pending
        /\ (/\ req[r].seen # Pending
            /\ NoStageMatches(req[r].seen.accounts, req[r].parsed.account, req[r].sms.v))
           => /\ req[r].pc = "done"
              /\ req[r].response =
                    [status |-> 500, ok |-> FALSE,
                     error |-> [t |-> "error", message |-> "Could not match account",
                                accountName |-> req[r].parsed.account,
                                available |-> Join([i \in DOMAIN req[r].seen.accounts |->
                                                       req[r].seen.accounts[i].name])]]
              /\ req[r].tx = Pending

\* one request has imported its transaction, the other has answered with the
\* parser's error on a text the gateway returned
C14_Witness ==
    \E r1, r2 \in Requests :
        /\ req[r1].tx # Pending
        /\ req[r1].pc = "done"
        /\ req[r1].response.ok
        /\ req[r2].reply # Pending
        /\ ChatTexts[req[r2].reply.i].t = "str"
        /\ IsError(ParsedObjects[req[r2].reply.i])
        /\ req[r2].pc = "done"
        /\ req[r2].response.error = ParsedObjects[req[r2].reply.i]

----------------------------------------------------------------------------
(* The date of the transaction (specification Spec) *)

TwoDigits(str, i) == DigitValue(str[i]) * 10 + DigitValue(str[i + 1])

DaysIn(year, month) ==
    IF month \in {4, 6, 9, 11} THEN 30
    ELSE IF month # 2 THEN 31
    ELSE IF year % 4 = 0 /\ (year % 100 # 0 \/ year % 400 = 0) THEN 29
    ELSE 28

\* str is a calendar date written YYYY-MM-DD
IsCalendarDate(str) ==
    /\ Len(str) = 10
    /\ \A i \in {1, 2, 3, 4, 6, 7, 9, 10} : IsDigit(str[i])
    /\ str[5] = "-"
    /\ str[8] = "-"
    /\ TwoDigits(str, 6) \in 1..12
    /\ TwoDigits(str, 9) \in 1..DaysIn(TwoDigits(str, 1) * 100 + TwoDigits(str, 3),
                                      TwoDigits(str, 6))

\* C17: the date of every transaction handed to importTransactions is a
\* well-formed calendar date YYYY-MM-DD
C17_DateIsCalendarDate ==
    \A r \in Requests : req[r].tx # Pending => IsCalendarDate(req[r].tx.date)

----------------------------------------------------------------------------
(* The digit fallback of matchAccount (specification SpecMatch) *)

\* the number of digits that stand immediately before index i
DigitsBefore(str, i) ==
    Cardinality({j \in 1..(i - 1) : \A k \in j..(i - 1) : IsDigit(str[k])})

FourDigitsAt(str, i) == i + 3 <= Len(str) /\ \A k \in i..(i + 3) : IsDigit(str[k])

\* where the runs of exactly four digits start
ExactRunStarts(str) ==
    {i \in 1..Len(str) :
        /\ FourDigitsAt(str, i)
        /\ DigitsBefore(str, i) = 0
        /\ (i + 4 > Len(str) \/ ~IsDigit(str[i + 4]))}

\* where the successive groups of four digits start, in every run of four
\* digits or more
GroupStarts(str) ==
    {i \in 1..Len(str) : FourDigitsAt(str, i) /\ DigitsBefore(str, i) % 4 = 0}

\* the first account, in catalog order, whose name holds the four digits at i
HolderOf(accounts, str, i) ==
    accounts[MinOf({a \in DOMAIN accounts :
                       Includes(accounts[a].name, SubSeq(str, i, i + 3))})]

\* the candidates tried in order of appearance: the account for the first
\* candidate that some name holds, null when there is none
FallbackPick(accounts, str, starts) ==
    IF \A i \in starts : \A a \in DOMAIN accounts :
          ~Includes(accounts[a].name, SubSeq(str, i, i + 3))
    THEN JNull
    ELSE HolderOf(accounts, str,
             MinOf({i \in starts : \E a \in DOMAIN accounts :
                                      Includes(accounts[a].name, SubSeq(str, i, i + 3))}))

\* C15 as stated: when no exact and no partial match exists, the result is
\* the account found for the first run of exactly four digits of the message
\* that a name holds, runs taken in order of appearance and never from the
\* label, and null without such a run
C15_FallbackOnExactRuns ==
    (/\ ret # Pending
     /\ ExactHits(actualAccounts, call.accountName) = {}
     /\ PartialHits(actualAccounts, call.accountName) = {})
    => ret = FallbackPick(actualAccounts, call.sms, ExactRunStarts(call.sms))

\* C15 amended: the candidates are the successive groups of four digits of
\* every run of four digits or more of the message
C15_FallbackOnGroups ==
    (/\ ret # Pending
     /\ ExactHits(actualAccounts, call.accountName) = {}
     /\ PartialHits(actualAccounts, call.accountName) = {})
    => ret = FallbackPick(actualAccounts, call.sms, GroupStarts(call.sms))

\* the second account of the catalog is returned for the first run of the
\* message although the first account holds a later run
C15_Witness ==
    /\ ret # Pending
    /\ ExactHits(actualAccounts, call.accountName) = {}
    /\ PartialHits(actualAccounts, call.accountName) = {}
    /\ Len(actualAccounts) = 2
    /\ ret = actualAccounts[2]
    /\ ret # actualAccounts[1]
    /\ 1 \in DigitHits(actualAccounts, call.sms)

----------------------------------------------------------------------------
(* The partial stage of matchAccount (specification SpecMatch) *)

\* a name without its punctuation and whitespace
Squeezed(str) == SelectSeq(str, LAMBDA c : IsWord(c))

\* the partial stage as described: both directions on the squeezed name
PartialAsDescribed(a, label) ==
    \/ Includes(ToLowerCase(label), Squeezed(ToLowerCase(a.name)))
    \/ Includes(Squeezed(ToLowerCase(a.name)), ToLowerCase(label))

\* the partial stage as amended: the name as it stands holds the label, or
\* the label holds the name without asterisks and whitespace, for a label
\* that is not empty
PartialAsAmended(a, label) ==
    /\ label # <<>>
    /\ \/ Includes(ToLowerCase(a.name), ToLowerCase(label))
       \/ Includes(ToLowerCase(label),
                   SelectSeq(ToLowerCase(a.name), LAMBDA c : c # "*" /\ ~IsSpace(c)))

\* what matchAccount returns without an exact match, given the indices of the
\* accounts that match in the partial stage
AfterExact(hits) ==
    IF hits # {} THEN actualAccounts[MinOf(hits)]
    ELSE FallbackPick(actualAccounts, call.sms, GroupStarts(call.sms))

\* C16 as stated: for a label that is not null and has no exact match, the
\* accounts that match in the partial stage are those whose squeezed name
\* (lowercase, punctuation and whitespace removed) holds the label or is held
\* by it
C16_PartialOnSqueezedName ==
    (/\ ret # Pending
     /\ call.accountName # JNull
     /\ ExactHits(actualAccounts, call.accountName) = {})
    => ret = AfterExact({i \in DOMAIN actualAccounts :
                            PartialAsDescribed(actualAccounts[i], call.accountName.v)})

\* C16 amended: for a label that is not null and has no exact match, the
\* accounts that match in the partial stage are those whose lowercase name
\* holds the lowercase label, or whose lowercase name without asterisks and
\* whitespace is held by the lowercase label, the label not being empty
C16_PartialOnNameAsItStands ==
    (/\ ret # Pending
     /\ call.accountName # JNull
     /\ ExactHits(actualAccounts, call.accountName) = {})
    => ret = AfterExact({i \in DOMAIN actualAccounts :
                            PartialAsAmended(actualAccounts[i], call.accountName.v)})

\* an account returned because its name as it stands holds the label, while
\* its squeezed name does not
C16_Witness ==
    /\ ret # Pending
    /\ call.accountName # JNull
    /\ ExactHits(actualAccounts, call.accountName) = {}
    /\ \E i \in DOMAIN actualAccounts :
          /\ ret = actualAccounts[i]
          /\ PartialAsAmended(actualAccounts[i], call.accountName.v)
          /\ ~PartialAsDescribed(actualAccounts[i], call.accountName.v)
    /\ GroupStarts(call.sms) = {}

----------------------------------------------------------------------------
(* extractFirstJsonObjectString on every short text of braces and letters  *)
(* (specification SpecScan).                                               *)

MaxScan == 6

ScanChars == {"{", "}", "x"}
ScanTexts == UNION {[1..n -> ScanChars] : n \in 0..MaxScan}

InitScan ==
    /\ Idle
    /\ call \in [op : {"extractFirstJsonObjectString"}, text : ScanTexts]
    /\ ret = Pending

CallExtractFirstObject ==
    /\ ret = Pending
    /\ ret' = extractFirstJsonObjectString(call.text)
    /\ UNCHANGED <<actualReady, actualAccounts, actualCategories, ledger, ledgerTx,
                   today, req, call>>

SpecScan == InitScan /\ [][CallExtractFirstObject]_vars

\* the brace nesting depth after the characters start..i of str
RECURSIVE Nesting(_, _, _)
Nesting(str, start, i) ==
    IF i < start THEN 0
    ELSE Nesting(str, start, i - 1)
         + (IF str[i] = "{" THEN 1 ELSE IF str[i] = "}" THEN -1 ELSE 0)

\* str has as many closing as opening braces, and never more closing than
\* opening ones in a prefix
IsBalanced(str) ==
    /\ Nesting(str, 1, Len(str)) = 0
    /\ \A i \in 1..Len(str) : Nesting(str, 1, i) >= 0

FirstOpen(str) == MinOf({i \in 1..Len(str) : str[i] = "{"})
Returns(str, start) == {i \in start..Len(str) : Nesting(str, start, i) = 0}

\* C18: on a text that does not parse as JSON the scanner returns the part
\* from the first opening brace to the first index where the nesting depth
\* is back to zero, and that part is balanced; it throws exactly when the
\* text has no opening brace or the depth is never back to zero
C18_ScannerReturnsBalanced ==
    (ret # Pending /\ IsError(JsonParse(call.text)))
    => IF \A i \in 1..Len(call.text) : call.text[i] # "{"
       THEN ret = Err("No '{' found in model output")
       ELSE IF Returns(call.text, FirstOpen(call.text)) = {}
       THEN ret = Err("Unterminated JSON object in model output")
       ELSE /\ ret = JStr(SubSeq(call.text, FirstOpen(call.text),
                                 MinOf(Returns(call.text, FirstOpen(call.text)))))
            /\ IsBalanced(ret.v)

\* a nested pair of braces returned from a text that starts with a letter
\* and goes on with a closing brace
C18_Witness ==
    /\ ret # Pending
    /\ IsError(JsonParse(call.text))
    /\ ret = JStr(<<"{", "{", "}", "}">>)
    /\ call.text = <<"x", "{", "{", "}", "}", "}">>

----------------------------------------------------------------------------
(* The text fed to the digest (specification SpecKey) *)

\* C20: two input tuples that differ, a null description being read as the
\* empty string, give different keys, also when the message or the
\* description holds the separator
C20_DistinctTuplesDistinctKeys ==
    (ret # Pending /\ AsRead(call.a) # AsRead(call.b)) => ret.a # ret.b

====
